---- MODULE Spec2Model ----
(***************************************************************************)
(* A model of the evp-ts parser-tree engine (src/src/mod.ts, the final     *)
(* engine at lines 453-919, with src/src/option.ts and src/src/logger.ts). *)
(*                                                                         *)
(* Parser objects live in a heap, because the builder methods mutate the   *)
(* object they are called on and return it, and because one parser object  *)
(* can be mounted at several field positions.  A JavaScript string is an   *)
(* atom; a string built by a template literal is the sequence of its       *)
(* parts, so that what a log line contains can be inspected.               *)
(***************************************************************************)
EXTENDS Integers, Sequences, FiniteSets, TLC

VARIABLES heap, fresh, root, environ, out, calls, prototypeUsed, described

vars == <<heap, fresh, root, environ, out, calls, prototypeUsed, described>>

(***************************************************************************)
(* Bounds of the model.                                                    *)
(***************************************************************************)
\* Number of parser objects the heap can hold.
MaxNodes == 7
\* Number of builder calls made after the schema of Init was built.
MaxCalls == 1

Ids == 1..MaxNodes

(***************************************************************************)
(* JavaScript values.  Every value is a record of one shape: t is the      *)
(* type, s is String(value) for a primitive, f the properties of an object *)
(* in property order.                                                      *)
(***************************************************************************)
Undefined == [t |-> "undefined", s |-> "undefined", f |-> <<>>]

Str(s) == [t |-> "string", s |-> s, f |-> <<>>]

Num(s) == [t |-> "number", s |-> s, f |-> <<>>]

Bool(s) == [t |-> "boolean", s |-> s, f |-> <<>>]

Obj(entries) == [t |-> "object", s |-> "[object Object]", f |-> entries]

\* The absent envName, _description, forceMetavar, tag (undefined).
None == "#undefined"

\* Properties every plain object inherits from Object.prototype: an index
\* expression obj[k] with one of these names finds the inherited property
\* when obj has no own property k.
ObjectPrototypeKeys == {"constructor", "toString", "valueOf", "hasOwnProperty"}

(***************************************************************************)
(* option.ts                                                               *)
(***************************************************************************)
none == [tag |-> "none", value |-> Undefined]

some(value) == [tag |-> "some", value |-> value]

toUndefined(option) == IF option.tag = "some" THEN option.value ELSE Undefined

(***************************************************************************)
(* Parser objects.  One record shape for every class; a class uses the     *)
(* fields it declares.  fields holds an ObjectParser's fields and a        *)
(* union's _options, as the object literal declared them; prefixes and     *)
(* unused are an ObjectParser's assumed prefixes and what it does with     *)
(* unused variables ("ignore", "report" or "reject").                      *)
(***************************************************************************)
Free == [kind |-> "free", envName |-> None, isSecret |-> FALSE,
         defaultValue |-> none, description |-> None, forceMetavar |-> None,
         variable |-> 0, f |-> None, values |-> <<>>, fields |-> <<>>,
         tag |-> None, logger |-> None, prefixes |-> {}, unused |-> "ignore"]

\* VariableLike's field initialisers.
VariableLike(kind) == [Free EXCEPT !.kind = kind]

StringVariable == VariableLike("string")

NumericVariable == VariableLike("number")

BooleanVariable == VariableLike("boolean")

Enum(values) == [VariableLike("enum") EXCEPT !.values = values]

OptionalVariable(variable) ==
    [VariableLike("optional") EXCEPT !.variable = variable,
                                     !.defaultValue = some(Undefined)]

MapVariable(variable, f) ==
    [VariableLike("map") EXCEPT !.variable = variable, !.f = f]

ObjectParser(fields) ==
    [VariableLike("object") EXCEPT !.fields = fields, !.logger = "console"]

UntaggedUnionParser(options) == [VariableLike("union") EXCEPT !.fields = options]

TaggedUnionParser(tag, options) ==
    [VariableLike("tagged") EXCEPT !.tag = tag, !.fields = options]

\* One property of an object literal: name: parser.
Field(name, node) == [name |-> name, node |-> node]

EmptyHeap == [i \in Ids |-> Free]

Allocated(h) == {i \in Ids : h[i].kind # "free"}

NextId(h) == Cardinality(Allocated(h)) + 1

\* new C(...): the object gets the next identity.
New(h, node) == [h EXCEPT ![NextId(h)] = node]

LeafKinds == {"string", "number", "boolean", "enum", "optional", "map"}

(***************************************************************************)
(* JavaScript built-ins the engine calls, on the strings of the model.     *)
(***************************************************************************)
Range(seq) == {seq[i] : i \in 1..Len(seq)}

\* The longest prefix of a string that parseFloat reads as a number; the
\* strings not listed ("c", "constructor", "blah", ...) have none.
NumericPrefix ==
    ("1" :> "1") @@ ("1o" :> "1") @@ ("8080" :> "8080") @@ ("808o" :> "808")
    @@ ("0" :> "0") @@ ("3.5" :> "3.5") @@ ("3.5.1" :> "3.5") @@ ("12px" :> "12")

NaN == Num("NaN")

\* parseFloat(value): String(value) is parsed, so undefined gives NaN.
parseFloat(value) ==
    IF value.s \in DOMAIN NumericPrefix THEN Num(NumericPrefix[value.s]) ELSE NaN

isNaN(value) == value = NaN

LowerCase ==
    ("TRUE" :> "true") @@ ("True" :> "true") @@ ("tRuE" :> "true")
    @@ ("YES" :> "yes") @@ ("Yes" :> "yes") @@ ("ON" :> "on") @@ ("On" :> "on")
    @@ ("FALSE" :> "false") @@ ("False" :> "false") @@ ("NO" :> "no") @@ ("No" :> "no")
    @@ ("OFF" :> "off") @@ ("Off" :> "off") @@ ("oFf" :> "off")
    @@ ("MAYBE" :> "maybe") @@ ("TRUEE" :> "truee")

\* A faulty toLowerCase that leaves the string as it is;
\* C14_BooleanConversion tells it from the one below.
toLowerCaseIdentity(s) == s

toLowerCase(s) == IF s \in DOMAIN LowerCase THEN LowerCase[s] ELSE s

UpperCase == ("c" :> "C") @@ ("1o" :> "1O") @@ ("constructor" :> "CONSTRUCTOR")

toUpperCase(s) == IF s \in DOMAIN UpperCase THEN UpperCase[s] ELSE s

\* Array.prototype.join on strings, as the parts of the joined string.
RECURSIVE join(_, _)
join(items, sep) ==
    IF Len(items) = 0 THEN <<>>
    ELSE IF Len(items) = 1 THEN <<items[1]>>
    ELSE <<items[1], sep>> \o join(Tail(items), sep)

\* The names for (k in obj) and Object.keys(obj) enumerate, in order:
\* integer-like names in ascending numeric order, then the other names in
\* insertion order.
IntegerKeys == <<"0", "1", "2">>

RECURSIVE IntegerKeyed(_, _)
IntegerKeyed(entries, j) ==
    IF j > Len(IntegerKeys) THEN <<>>
    ELSE SelectSeq(entries, LAMBDA e : e.name = IntegerKeys[j])
         \o IntegerKeyed(entries, j + 1)

OwnKeys(entries) ==
    IntegerKeyed(entries, 1)
    \o SelectSeq(entries, LAMBDA e : e.name \notin Range(IntegerKeys))

Names(entries) == [i \in 1..Len(entries) |-> entries[i].name]

HasOwn(entries, name) == \E i \in 1..Len(entries) : entries[i].name = name

Own(entries, name) == entries[CHOOSE i \in 1..Len(entries) : entries[i].name = name]

\* obj[name] = v on a plain object: an existing property keeps its place.
SetProperty(entries, name, v) ==
    IF HasOwn(entries, name)
    THEN [i \in 1..Len(entries) |->
            IF entries[i].name = name THEN [name |-> name, value |-> v] ELSE entries[i]]
    ELSE Append(entries, [name |-> name, value |-> v])

\* { ...a, ...b }
RECURSIVE Spread(_, _)
Spread(a, b) ==
    IF Len(b) = 0 THEN a
    ELSE Spread(SetProperty(a, b[1].name, b[1].value), Tail(b))

(***************************************************************************)
(* How a call ends: it returns a value, throws an Error with a message,    *)
(* or throws a value that is not an Error.  h is the heap it leaves.       *)
(***************************************************************************)
Return(h, value) ==
    [h |-> h, threw |-> FALSE, isError |-> FALSE, value |-> value, message |-> <<>>]

ThrowError(h, message) ==
    [h |-> h, threw |-> TRUE, isError |-> TRUE, value |-> Undefined, message |-> message]

ThrowValue(h, value) ==
    [h |-> h, threw |-> TRUE, isError |-> FALSE, value |-> value, message |-> <<>>]

\* serialComma(items): the text, and the array it leaves behind (pop()
\* removes the last item of the caller's array).
serialComma(items) ==
    IF Len(items) = 1 THEN [text |-> <<items[1]>>, items |-> items]
    ELSE IF Len(items) = 2 THEN [text |-> join(items, " or "), items |-> items]
    ELSE LET last == IF Len(items) = 0 THEN "undefined" ELSE items[Len(items)]
             rest == IF Len(items) = 0 THEN <<>> ELSE SubSeq(items, 1, Len(items) - 1)
         IN  [text |-> join(rest, ", ") \o <<", or ", last>>, items |-> rest]

\* The callbacks given to map(): part_007's tests 'map', 'throwing error'
\* and 'throwing non-Error'.
MapFunctions == {"toUpperCase", "throwError", "throwString"}

Apply(f, h, value) ==
    CASE f = "toUpperCase" ->
           IF value.t = "string" THEN Return(h, Str(toUpperCase(value.s)))
           ELSE ThrowError(h, <<"TypeError: value.toUpperCase is not a function">>)
      [] f = "throwError" -> ThrowError(h, <<"error">>)
      [] OTHER -> ThrowValue(h, Str("error"))

(***************************************************************************)
(* Variable.parse(value) of each leaf class.                               *)
(***************************************************************************)
StringVariableParse(h, value) == Return(h, value)

NumericVariableParse(h, value) ==
    LET num == parseFloat(value)
    IN  IF isNaN(num) THEN ThrowError(h, <<"invalid number">>) ELSE Return(h, num)

BooleanVariableParse(h, value) ==
    IF value.t # "string"
    THEN ThrowError(h, <<"TypeError: Cannot read properties of undefined">>)
    ELSE IF toLowerCase(value.s) \in {"true", "yes", "on", "1"} THEN Return(h, Bool("true"))
    ELSE IF toLowerCase(value.s) \in {"false", "no", "off", "0"} THEN Return(h, Bool("false"))
    ELSE ThrowError(h, <<"invalid boolean">>)

EnumParse(h, id, value) ==
    IF value.t = "string" /\ value.s \in Range(h[id].values)
    THEN Return(h, value)
    ELSE LET sc == serialComma(h[id].values)
         IN  ThrowError([h EXCEPT ![id].values = sc.items],
                        <<"it must be ">> \o sc.text \o <<", but got ", value.s>>)

RECURSIVE VariableParse(_, _, _)
OptionalVariableParse(h, id, value) == VariableParse(h, h[id].variable, value)

\* A faulty MapVariable.parse that returns what the wrapped variable parsed
\* and never calls f; C11_MapLeaf tells it from the one below.
MapVariableParseSkipsF(h, id, value) ==
    LET r == VariableParse(h, h[id].variable, value)
    IN  IF r.threw THEN r ELSE Return(r.h, r.value)

MapVariableParse(h, id, value) ==
    LET r == VariableParse(h, h[id].variable, value)
    IN  IF r.threw THEN r ELSE Apply(h[id].f, r.h, r.value)

\* this.parse(value), dispatched on the class of the leaf.
VariableParse(h, id, value) ==
    CASE h[id].kind = "string" -> StringVariableParse(h, value)
      [] h[id].kind = "number" -> NumericVariableParse(h, value)
      [] h[id].kind = "boolean" -> BooleanVariableParse(h, value)
      [] h[id].kind = "enum" -> EnumParse(h, id, value)
      [] h[id].kind = "optional" -> OptionalVariableParse(h, id, value)
      [] h[id].kind = "map" -> MapVariableParse(h, id, value)

(***************************************************************************)
(* The Context of one parse call, and what a parseContext call leaves:     *)
(*   heap   the parser objects (Enum.parse changes one through             *)
(*          serialComma),                                                  *)
(*   env    ctx.values: the own properties key -> {value, used},           *)
(*   log    the lines given to ctx.logger, in order, with their channel,   *)
(*   trace  the parseContext calls made (ev is the class of the parser)    *)
(*          and the fields resolved (ev "field", node the ObjectParser),   *)
(*          in order, each with the type and value of its result once it   *)
(*          has one; a log line's at is the place in trace of the call     *)
(*          that emitted it,                                               *)
(*   marked the inherited (Object.prototype) properties whose used         *)
(*          property was set.                                              *)
(* A ParseResult is type/value/message; type "throw" is an exception       *)
(* leaving parseContext (isError: an Error with message, else value).      *)
(***************************************************************************)
info(m, text) ==
    [m EXCEPT !.log = Append(@, [chan |-> "info", text |-> text, at |-> Len(m.trace)])]

error(m, text) ==
    [m EXCEPT !.log = Append(@, [chan |-> "error", text |-> text, at |-> Len(m.trace)])]

\* A faulty logMissingVariable that logs to the info channel;
\* C25_FailureHasErrorLine tells it from the one below.
logMissingVariableAsInfo(m, key) ==
    info(m, <<key, "=", "undefined", " ERROR: ", "missing environment variable">>)

logMissingVariable(m, key) ==
    error(m, <<key, "=", "undefined", " ERROR: ", "missing environment variable">>)

Traced(m, ev, node, name) ==
    [m EXCEPT !.trace = Append(@, [ev |-> ev, node |-> node, name |-> name,
                                   type |-> "pending", value |-> Undefined,
                                   end |-> 0])]

\* The call traced at place i has ended with r; end is the last place of
\* the trace entered during the call.
Finish(r, i) ==
    [r EXCEPT !.m.trace[i].type = r.type, !.m.trace[i].value = r.value,
              !.m.trace[i].end = Len(r.m.trace)]

Success(m, value) ==
    [m |-> m, type |-> "success", value |-> value, isError |-> FALSE, message |-> <<>>]

Missing(m) ==
    [m |-> m, type |-> "missing", value |-> Undefined, isError |-> FALSE, message |-> <<>>]

Failure(m, message) ==
    [m |-> m, type |-> "error", value |-> Undefined, isError |-> TRUE, message |-> message]

Thrown(m, isError, value, message) ==
    [m |-> m, type |-> "throw", value |-> value, isError |-> isError, message |-> message]

\* ctx.values[k]: an own property, a property inherited from
\* Object.prototype (whose .value is undefined), or undefined.
StateOf(env, k) ==
    IF k \in DOMAIN env THEN "own"
    ELSE IF k \in ObjectPrototypeKeys THEN "inherited"
    ELSE "undefined"

\* state.value
StateValue(env, k) == IF k \in DOMAIN env THEN Str(env[k].value) ELSE Undefined

\* A faulty parseContext that never sets state.used; C22_UnusedKeys tells
\* it from the one below.
MarkUsedForgets(m, k) == m

\* state.used = true
MarkUsed(m, k) ==
    IF k \in DOMAIN m.env THEN [m EXCEPT !.env[k].used = TRUE]
    ELSE [m EXCEPT !.marked = @ \cup {k}]

\* The text logged for a default value (mod.ts 552-561).
DefaultText(node) ==
    IF node.isSecret THEN "<REDACTED>" ELSE node.defaultValue.value.s

\* A faulty Variable.parseContext that reads the key of the field it is
\* mounted under and ignores the env() override; C19_OneKeyPerResolution
\* tells it from the one below.
VariableParseContextIgnoresEnv(id, currentKey, m) ==
    LET node == m.heap[id]
        envName == currentKey
    IN  IF envName = None
        THEN Thrown(m, TRUE, Undefined, <<"Unable to determine the name of the variable">>)
        ELSE IF StateOf(m.env, envName) = "undefined"
        THEN IF node.defaultValue.tag = "none"
             THEN Missing(logMissingVariable(m, envName))
             ELSE Success(info(m, <<envName, "=", DefaultText(node), " (default)">>),
                          node.defaultValue.value)
        ELSE LET raw == StateValue(m.env, envName)
                 m1 == MarkUsed(m, envName)
                 r == VariableParse(m1.heap, id, raw)
                 m2 == [m1 EXCEPT !.heap = r.h]
             IN  IF ~r.threw
                 THEN IF node.isSecret
                      THEN Success(info(m2, <<envName, "=", "<REDACTED>">>), r.value)
                      ELSE Success(info(m2, <<envName, "=", r.value.s>>), r.value)
                 ELSE IF r.isError
                 THEN Failure(error(m2, <<envName, "=", raw.s, " ERROR: ">> \o r.message),
                              r.message)
                 ELSE Thrown(m2, FALSE, r.value, <<>>)

\* A faulty Variable.parseContext that forgets the isSecret test of line 569
\* and logs the converted value of every leaf; C5_SecretRedactedOnSuccess
\* tells it from the one below.
VariableParseContextUnredacted(id, currentKey, m) ==
    LET node == m.heap[id]
        envName == IF node.envName # None THEN node.envName ELSE currentKey
    IN  IF StateOf(m.env, envName) = "undefined"
        THEN IF node.defaultValue.tag = "none"
             THEN Missing(logMissingVariable(m, envName))
             ELSE Success(info(m, <<envName, "=", DefaultText(node), " (default)">>),
                          node.defaultValue.value)
        ELSE LET raw == StateValue(m.env, envName)
                 m1 == MarkUsed(m, envName)
                 r == VariableParse(m1.heap, id, raw)
                 m2 == [m1 EXCEPT !.heap = r.h]
             IN  IF ~r.threw
                 THEN Success(info(m2, <<envName, "=", r.value.s>>), r.value)
                 ELSE IF r.isError
                 THEN Failure(error(m2, <<envName, "=", raw.s, " ERROR: ">> \o r.message),
                              r.message)
                 ELSE Thrown(m2, FALSE, r.value, <<>>)

\* A faulty Variable.parseContext that falls back to the default when the
\* conversion throws an Error; C27_DefaultNeverMasks tells it from the one
\* below.
VariableParseContextDefaultOnError(id, currentKey, m) ==
    LET node == m.heap[id]
        envName == IF node.envName # None THEN node.envName ELSE currentKey
    IN  IF StateOf(m.env, envName) = "undefined"
        THEN IF node.defaultValue.tag = "none"
             THEN Missing(logMissingVariable(m, envName))
             ELSE Success(info(m, <<envName, "=", DefaultText(node), " (default)">>),
                          node.defaultValue.value)
        ELSE LET raw == StateValue(m.env, envName)
                 m1 == MarkUsed(m, envName)
                 r == VariableParse(m1.heap, id, raw)
                 m2 == [m1 EXCEPT !.heap = r.h]
             IN  IF ~r.threw
                 THEN IF node.isSecret
                      THEN Success(info(m2, <<envName, "=", "<REDACTED>">>), r.value)
                      ELSE Success(info(m2, <<envName, "=", r.value.s>>), r.value)
                 ELSE IF r.isError /\ node.defaultValue.tag = "some"
                 THEN Success(info(m2, <<envName, "=", DefaultText(node), " (default)">>),
                              node.defaultValue.value)
                 ELSE IF r.isError
                 THEN Failure(error(m2, <<envName, "=", raw.s, " ERROR: ">> \o r.message),
                              r.message)
                 ELSE Thrown(m2, FALSE, r.value, <<>>)

\* Variable.parseContext
VariableParseContext(id, currentKey, m) ==
    LET node == m.heap[id]
        envName == IF node.envName # None THEN node.envName ELSE currentKey
    IN  IF envName = None
        THEN Thrown(m, TRUE, Undefined, <<"Unable to determine the name of the variable">>)
        ELSE IF StateOf(m.env, envName) = "undefined"
        THEN IF node.defaultValue.tag = "none"
             THEN Missing(logMissingVariable(m, envName))
             ELSE Success(info(m, <<envName, "=", DefaultText(node), " (default)">>),
                          node.defaultValue.value)
        ELSE LET raw == StateValue(m.env, envName)
                 m1 == MarkUsed(m, envName)
                 r == VariableParse(m1.heap, id, raw)
                 m2 == [m1 EXCEPT !.heap = r.h]
             IN  IF ~r.threw
                 THEN IF node.isSecret
                      THEN Success(info(m2, <<envName, "=", "<REDACTED>">>), r.value)
                      ELSE Success(info(m2, <<envName, "=", r.value.s>>), r.value)
                 ELSE IF r.isError
                 THEN Failure(error(m2, <<envName, "=", raw.s, " ERROR: ">> \o r.message),
                              r.message)
                 ELSE Thrown(m2, FALSE, r.value, <<>>)

\* A faulty fromParseResults that loses the last property of the object it
\* builds; C3_ValidSnapshotParses tells it from the one below.
fromParseResultsDropsLast(m, partial) ==
    LET keys == OwnKeys(partial)
        missing == SelectSeq(keys, LAMBDA e : e.result.type # "success")
    IN  IF Len(missing) > 0
        THEN Failure(m, <<"Unable to fill the following fields: ">>
                        \o join(Names(missing), ", "))
        ELSE Success(m, Obj([i \in 1..(Len(keys) - 1) |->
                               [name |-> keys[i].name, value |-> keys[i].result.value]]))

\* fromParseResults: partial is the sequence of [name, result] properties.
fromParseResults(m, partial) ==
    LET keys == OwnKeys(partial)
        missing == SelectSeq(keys, LAMBDA e : e.result.type # "success")
    IN  IF Len(missing) > 0
        THEN Failure(m, <<"Unable to fill the following fields: ">>
                        \o join(Names(missing), ", "))
        ELSE Success(m, Obj([i \in 1..Len(keys) |->
                               [name |-> keys[i].name, value |-> keys[i].result.value]]))

\* A faulty lookup that gives the first option for every selector that
\* names an option; C29_OnlySelectedVariant tells it from the one below.
OptionOfFirst(node, value) ==
    IF value.t = "string" /\ HasOwn(node.fields, value.s) THEN node.fields[1].node
    ELSE IF value.s \in ObjectPrototypeKeys THEN -1
    ELSE 0

\* this._options[value]: the parser, 0 for undefined, and -1 for a property
\* inherited from Object.prototype, which is no parser.
OptionOf(node, value) ==
    IF value.t = "string" /\ HasOwn(node.fields, value.s) THEN Own(node.fields, value.s).node
    ELSE IF value.s \in ObjectPrototypeKeys THEN -1
    ELSE 0

\* A faulty selector that forgets the default of the union;
\* C17_AbsentSelector tells it from the one below.
SelectorIgnoresDefault(node, m, k) ==
    IF StateOf(m.env, k) = "own" THEN StateValue(m.env, k) ELSE Undefined

\* The selector of a union: ctx.values[k]?.value ?? toUndefined(defaultValue)
Selector(node, m, k) ==
    IF StateOf(m.env, k) = "own" THEN StateValue(m.env, k) ELSE toUndefined(node.defaultValue)

InvalidOption(node, value) ==
    <<"it must be ">> \o serialComma(Names(OwnKeys(node.fields))).text
    \o <<", but got ", value.s>>

NotAFunction == <<"TypeError: parser.parseContext is not a function">>

RECURSIVE ParseContext(_, _, _)
RECURSIVE ObjectFields(_, _, _, _, _)
\* The loop of ObjectParser.parseContext over the fields left to resolve.
ObjectFields(id, todo, partial, currentKey, m) ==
    IF Len(todo) = 0 THEN fromParseResults(m, partial)
    ELSE LET key == todo[1].name
             m1 == Traced(m, "field", id, key)
             r == Finish(ParseContext(todo[1].node, key, m1), Len(m1.trace))
         IN  IF r.type = "throw" THEN r
             ELSE ObjectFields(id, Tail(todo),
                               Append(partial, [name |-> key, result |-> r]),
                               currentKey, r.m)

\* ObjectParser.parseContext
ObjectParseContext(id, currentKey, m) ==
    ObjectFields(id, OwnKeys(m.heap[id].fields), <<>>, currentKey, m)

\* A faulty UntaggedUnionParser.parseContext that merges the selector into
\* the variant's object, as the tagged form does; C18_UntaggedDelegates tells
\* it from the one below.
UntaggedParseContextAddsSelector(id, currentKey, m) ==
    LET node == m.heap[id]
        k == IF node.envName # None THEN node.envName ELSE currentKey
        value == Selector(node, m, k)
        parser == OptionOf(node, value)
    IN  IF value = Undefined THEN Missing(logMissingVariable(m, k))
        ELSE IF parser = 0
        THEN Failure(error(m, <<k, "=", value.s, " ERROR: ">> \o InvalidOption(node, value)),
                     InvalidOption(node, value))
        ELSE IF parser = -1 THEN Thrown(m, TRUE, Undefined, NotAFunction)
        ELSE LET result == ParseContext(parser, currentKey, m)
             IN  IF result.type = "success"
                 THEN Success(result.m,
                              Obj(Spread(<<[name |-> k, value |-> value]>>, result.value.f)))
                 ELSE result

\* UntaggedUnionParser.parseContext
UntaggedParseContext(id, currentKey, m) ==
    LET node == m.heap[id]
        k == IF node.envName # None THEN node.envName ELSE currentKey
        value == Selector(node, m, k)
        parser == OptionOf(node, value)
    IN  IF k = None
        THEN Thrown(m, TRUE, Undefined, <<"Unable to determine the name of the variable">>)
        ELSE IF value = Undefined THEN Missing(logMissingVariable(m, k))
        ELSE IF parser = 0
        THEN Failure(error(m, <<k, "=", value.s, " ERROR: ">> \o InvalidOption(node, value)),
                     InvalidOption(node, value))
        ELSE IF parser = -1 THEN Thrown(m, TRUE, Undefined, NotAFunction)
        ELSE ParseContext(parser, currentKey, m)

\* TaggedUnionParser.parseContext
TaggedParseContext(id, currentKey, m) ==
    LET node == m.heap[id]
        k == IF node.envName # None THEN node.envName ELSE currentKey
        value == Selector(node, m, k)
        parser == OptionOf(node, value)
        isDefault == StateOf(m.env, k) = "undefined"
        m1 == IF isDefault THEN info(m, <<k, "=", value.s, " (default)">>)
              ELSE info(m, <<k, "=", value.s>>)
    IN  IF k = None
        THEN Thrown(m, TRUE, Undefined, <<"Unable to determine the name of the variable">>)
        ELSE IF value = Undefined THEN Missing(logMissingVariable(m, k))
        ELSE IF parser = 0
        THEN Failure(error(m, <<k, "=", value.s, " ERROR: ">> \o InvalidOption(node, value)),
                     InvalidOption(node, value))
        ELSE IF parser = -1 THEN Thrown(m1, TRUE, Undefined, NotAFunction)
        ELSE LET result == ParseContext(parser, currentKey, m1)
                 tag == <<[name |-> node.tag, value |-> value]>>
             IN  IF result.type = "success"
                 THEN Success(result.m, Obj(Spread(tag, result.value.f)))
                 ELSE result

\* parser.parseContext({ ...ctx, currentKey }), dispatched on the class;
\* the call is entered in the trace.
ParseContext(id, currentKey, m0) ==
    LET kind == m0.heap[id].kind
        m == Traced(m0, IF kind \in LeafKinds THEN "leaf" ELSE kind, id, currentKey)
    IN  Finish(CASE kind \in LeafKinds -> VariableParseContext(id, currentKey, m)
                 [] kind = "object" -> ObjectParseContext(id, currentKey, m)
                 [] kind = "union" -> UntaggedParseContext(id, currentKey, m)
                 [] kind = "tagged" -> TaggedParseContext(id, currentKey, m),
               Len(m.trace))

(***************************************************************************)
(* ObjectParser.parse(input): the outcome of one call.                     *)
(***************************************************************************)
\* for (const [key, value] of Object.entries(raw)) env[key] = {value, used: false}
NewEnv(input) == [k \in DOMAIN input |-> [value |-> input[k], used |-> FALSE]]

NewContext(h, input) ==
    [heap |-> h, env |-> NewEnv(input), log |-> <<>>, trace |-> <<>>, marked |-> {}]

\* What parse does with the final result: return final.value or throw.
Outcome(id, input, logger, final) ==
    [parser |-> id, input |-> input, logger |-> logger,
     threw |-> final.type # "success",
     isError |-> final.type # "success" /\ (final.type # "throw" \/ final.isError),
     message |-> IF final.type = "missing" THEN <<"missing required variables">>
                 ELSE final.message,
     value |-> final.value,
     log |-> final.m.log, env |-> final.m.env, trace |-> final.m.trace,
     marked |-> final.m.marked]

parse(h, id, input) ==
    LET final == ParseContext(id, None, NewContext(h, input))
    IN  [h |-> final.m.heap, out |-> Outcome(id, input, h[id].logger, final)]

\* No parse call was made yet.
NoCall ==
    [parser |-> 0, input |-> <<>>, logger |-> None, threw |-> FALSE, isError |-> FALSE,
     message |-> <<>>, value |-> Undefined, log |-> <<>>, env |-> <<>>, trace |-> <<>>,
     marked |-> {}]

(***************************************************************************)
(* The builder methods: each changes the object it is called on (or makes  *)
(* a new one) and gives the heap it leaves.                                *)
(***************************************************************************)
secret(h, id) == [h EXCEPT ![id].isSecret = TRUE]

default(h, id, defaultValue) == [h EXCEPT ![id].defaultValue = some(defaultValue)]

description(h, id, text) == [h EXCEPT ![id].description = text]

\* VariableLike.metavar, and OptionalVariable's override, which sets the
\* metavar of the variable it wraps.
RECURSIVE metavar(_, _, _)
metavar(h, id, text) ==
    IF h[id].kind = "optional" THEN metavar(h, h[id].variable, text)
    ELSE [h EXCEPT ![id].forceMetavar = text]

env(h, id, name) == [h EXCEPT ![id].envName = name]

optional(h, id) == New(h, OptionalVariable(id))

map(h, id, f) == New(h, MapVariable(id, f))

\* VariableLike.clone: the fields copied from source.
clone(node, source) ==
    [node EXCEPT !.envName = source.envName, !.isSecret = source.isSecret,
                 !.description = source.description,
                 !.defaultValue = source.defaultValue,
                 !.forceMetavar = source.forceMetavar]

tag(h, id, name) == New(h, clone(TaggedUnionParser(name, h[id].fields), h[id]))

logger(h, id, l) == [h EXCEPT ![id].logger = l]

(***************************************************************************)
(* describe(): the dotenv-style text, as the sequence of its lines; a line *)
(* is the sequence of its parts and the empty line is <<>>.                *)
(***************************************************************************)
\* fromOption(this.defaultValue, none, (value) => value.toString())
fromOption(option, noneText) == IF option.tag = "some" THEN <<option.value.s>> ELSE noneText

RECURSIVE getMetavar(_, _)
\* getMetavar() of each class, as the parts of the string.
getMetavar(h, id) ==
    CASE h[id].kind = "string" -> fromOption(h[id].defaultValue, <<"<string>">>)
      [] h[id].kind = "number" -> fromOption(h[id].defaultValue, <<"<number>">>)
      [] h[id].kind = "boolean" -> fromOption(h[id].defaultValue, <<"true|false">>)
      [] h[id].kind = "enum" -> join(h[id].values, "|")
      [] h[id].kind \in {"optional", "map"} -> getMetavar(h, h[id].variable)
      [] h[id].kind = "object" -> <<"object">>
      [] h[id].kind \in {"union", "tagged"} ->
             fromOption(h[id].defaultValue, join(Names(OwnKeys(h[id].fields)), "|"))

\* line.startsWith('#'): the parts that start with '#' are the comment marks.
StartsWithHash(line) == Len(line) > 0 /\ line[1] = "# "

\* commentOut(text)
commentOut(lines) ==
    [i \in 1..Len(lines) |-> IF StartsWithHash(lines[i]) THEN lines[i]
                             ELSE <<"# ">> \o lines[i]]

\* Array.prototype.join('\n\n') on texts: an empty line between two texts.
RECURSIVE joinBlocks(_)
joinBlocks(texts) ==
    IF Len(texts) = 0 THEN <<<<>>>>
    ELSE IF Len(texts) = 1 THEN texts[1]
    ELSE texts[1] \o <<<<>>>> \o joinBlocks(Tail(texts))

\* VariableLike.describe(key)
VariableLikeDescribe(h, id, key) ==
    LET k == IF h[id].envName # None THEN h[id].envName
             ELSE IF key # None THEN key ELSE "undefined"
        mv == IF h[id].forceMetavar # None THEN <<h[id].forceMetavar>> ELSE getMetavar(h, id)
        binding == <<k, "=">> \o mv
    IN  IF h[id].description # None THEN <<<<"# ", h[id].description>>, binding>>
        ELSE <<binding>>

RECURSIVE describe(_, _, _, _)
\* OptionalVariable.describe(key): '# ' before the text of the variable.
OptionalVariableDescribe(h, id, key) ==
    LET inner == describe(h, h[id].variable, key, None)
    IN  <<<<"# ">> \o inner[1]>> \o Tail(inner)

RECURSIVE DescribeFields(_, _)
\* Object.keys(this.fields).map((k) => this.fields[k].describe(k)), joined.
DescribeFields(h, todo) ==
    IF Len(todo) = 0 THEN <<>>
    ELSE describe(h, todo[1].node, todo[1].name, None) \o DescribeFields(h, Tail(todo))

\* ObjectParser.describe(_key, prepend); with nothing to join the text is
\* the empty string, one empty line.
ObjectParserDescribe(h, id, prepend) ==
    LET header == IF h[id].description # None THEN <<<<"# ", h[id].description>>>> ELSE <<>>
        selector == IF prepend # None THEN <<prepend>> ELSE <<>>
        lines == header \o selector \o DescribeFields(h, OwnKeys(h[id].fields))
    IN  IF Len(lines) = 0 THEN <<<<>>>> ELSE lines

RECURSIVE DescribeEach(_, _, _, _)
\* The map of describeOptions over Object.keys(options).
DescribeEach(h, key, todo, defaultOption) ==
    IF Len(todo) = 0 THEN <<>>
    ELSE LET k == todo[1].name
             desc == describe(h, todo[1].node, k, <<key, "=", k>>)
         IN  <<IF defaultOption = Str(k) THEN desc ELSE commentOut(desc)>>
             \o DescribeEach(h, key, Tail(todo), defaultOption)

describeOptions(h, key, options, defaultOption) ==
    joinBlocks(DescribeEach(h, key, OwnKeys(options), defaultOption))

\* UntaggedUnionParser.describe and TaggedUnionParser.describe
UnionDescribe(h, id, key) ==
    describeOptions(h,
                    IF h[id].envName # None THEN h[id].envName
                    ELSE IF key # None THEN key ELSE "",
                    h[id].fields, toUndefined(h[id].defaultValue))

\* parser.describe(key, prepend), dispatched on the class.
describe(h, id, key, prepend) ==
    CASE h[id].kind = "optional" -> OptionalVariableDescribe(h, id, key)
      [] h[id].kind \in LeafKinds \ {"optional"} -> VariableLikeDescribe(h, id, key)
      [] h[id].kind = "object" -> ObjectParserDescribe(h, id, prepend)
      [] h[id].kind \in {"union", "tagged"} -> UnionDescribe(h, id, key)

\* No describe call was made yet.
NoText == [node |-> 0, key |-> None, lines |-> <<>>]

(***************************************************************************)
(* The inputs of the model.                                                *)
(***************************************************************************)
\* Keys a snapshot may hold, and the raw strings it may give them: "c" is
\* an enum literal and a variant name, "1" a number and a boolean, "1o" a
\* number followed by a letter, "constructor" a property of
\* Object.prototype.
SnapKeys == {"A", "B"}

Raws == {"c", "1", "1o", "constructor"}

Snapshots == UNION {[D -> Raws] : D \in SUBSET SnapKeys}

DefaultValues == {Undefined, Str("c")}

EnvNames == {"B"}

Descriptions == {"doc"}

Metavars == {"<mv>"}

TagNames == {"type"}

Loggers == {"L1", "L2"}

(***************************************************************************)
(* The schemas of Init, built as the tests and the README build them.      *)
(***************************************************************************)
\* part_007 20-29: sibling leaves, a secret leaf, a nested object.
Siblings ==
    LET h1 == New(EmptyHeap, StringVariable)
        h2 == secret(New(h1, NumericVariable), 2)
        h3 == default(New(h2, BooleanVariable), 3, Bool("false"))
        h4 == New(h3, ObjectParser(<<Field("B", 3)>>))
        h5 == New(h4, ObjectParser(<<Field("A", 1), Field("B", 2), Field("N", 4)>>))
    IN  [heap |-> h5, root |-> 5]

\* part_007 204-221: an enum of three literals; one leaf object mounted
\* under two names, one of them integer-like.
Shared ==
    LET h1 == New(EmptyHeap, StringVariable)
        h2 == New(h1, Enum(<<"a", "b", "c">>))
        h3 == New(h2, ObjectParser(<<Field("B", 1), Field("1", 1), Field("A", 2)>>))
    IN  [heap |-> h3, root |-> 3]

\* part_007 30-38: a tagged union with a default variant, and a sibling.
Tagged ==
    LET h1 == New(EmptyHeap, ObjectParser(<<>>))
        h2 == New(h1, StringVariable)
        h3 == New(h2, ObjectParser(<<Field("B", 2)>>))
        h4 == New(h3, UntaggedUnionParser(<<Field("b", 1), Field("c", 3)>>))
        h5 == default(tag(h4, 4, "type"), 5, Str("b"))
        h6 == New(h5, ObjectParser(<<Field("A", 5), Field("B", 2)>>))
    IN  [heap |-> h6, root |-> 6]

\* part_007 223-284: an untagged union without a default.
Untagged ==
    LET h1 == New(EmptyHeap, ObjectParser(<<>>))
        h2 == New(h1, StringVariable)
        h3 == New(h2, ObjectParser(<<Field("B", 2)>>))
        h4 == New(h3, UntaggedUnionParser(<<Field("b", 1), Field("c", 3)>>))
        h5 == New(h4, ObjectParser(<<Field("A", 4)>>))
    IN  [heap |-> h5, root |-> 5]

\* part_007 393-443: optional() of a secret leaf that reads another key,
\* and map(f) of a leaf.
Wrapped(f) ==
    LET h1 == env(secret(New(EmptyHeap, StringVariable), 1), 1, "B")
        h2 == optional(h1, 1)
        h3 == New(h2, StringVariable)
        h4 == map(h3, 3, f)
        h5 == New(h4, ObjectParser(<<Field("B", 4), Field("A", 2)>>))
    IN  [heap |-> h5, root |-> 5]

\* A field named as a property of Object.prototype.
Inherited ==
    LET h1 == New(EmptyHeap, StringVariable)
        h2 == New(h1, ObjectParser(<<Field("constructor", 1)>>))
    IN  [heap |-> h2, root |-> 2]

\* A tagged union whose discriminator is named as a snapshot key and as a
\* field of one of its variants.
Colliding ==
    LET h1 == New(EmptyHeap, StringVariable)
        h2 == New(h1, ObjectParser(<<Field("A", 1)>>))
        h3 == New(h2, ObjectParser(<<Field("B", 1)>>))
        h4 == New(h3, UntaggedUnionParser(<<Field("b", 2), Field("c", 3)>>))
        h5 == tag(h4, 4, "B")
        h6 == New(h5, ObjectParser(<<Field("A", 5)>>))
    IN  [heap |-> h6, root |-> 6]

\* part_007 431-443: a map(f) whose f throws a value that is no Error,
\* declared after a number.
Preceded ==
    LET h1 == New(EmptyHeap, NumericVariable)
        h2 == New(h1, StringVariable)
        h3 == map(h2, 2, "throwString")
        h4 == New(h3, ObjectParser(<<Field("A", 1), Field("B", 3)>>))
    IN  [heap |-> h4, root |-> 4]

Schemas ==
    {Siblings, Shared, Tagged, Untagged, Inherited, Colliding, Preceded}
    \cup {Wrapped(f) : f \in MapFunctions}

(***************************************************************************)
(* The state machine.  heap is the parser objects, root the parser the     *)
(* program calls parse on, environ the process environment that parse      *)
(* reads (const raw = input ?? process.env), out the outcome of the last   *)
(* parse call (NoCall after a builder call), calls the builder calls made  *)
(* since Init, fresh the heap the same builder calls leave when no parse   *)
(* call is made in between: a freshly built identical tree, and            *)
(* prototypeUsed the properties of Object.prototype whose value was given  *)
(* a used property (state.used = true on an inherited state), which every  *)
(* later ctx.values inherits; described is what the last describe call     *)
(* returned (NoText after a builder call).                                 *)
(***************************************************************************)
Init ==
    \E schema \in Schemas :
        /\ heap = schema.heap
        /\ fresh = schema.heap
        /\ root = schema.root
        /\ environ \in Snapshots
        /\ out = NoCall
        /\ calls = 0
        /\ prototypeUsed = {}
        /\ described = NoText

\* The parsers the builder calls of the model configure: the leaves and the
\* unions (the modifiers are VariableLike's; on an ObjectParser only
\* description() has an effect).
Configurable(h) == {id \in Allocated(h) : h[id].kind \in LeafKinds \cup {"union", "tagged"}}

\* A builder call that leaves heap h in place of heap, and g in place of fresh.
Built(h, g) ==
    /\ calls < MaxCalls
    /\ heap' = h
    /\ fresh' = g
    /\ out' = NoCall
    /\ calls' = calls + 1
    /\ described' = NoText
    /\ UNCHANGED <<root, environ, prototypeUsed>>

Secret ==
    \E id \in Configurable(heap) : Built(secret(heap, id), secret(fresh, id))

Default ==
    \E id \in Configurable(heap), v \in DefaultValues :
        Built(default(heap, id, v), default(fresh, id, v))

Description ==
    \E id \in Configurable(heap), text \in Descriptions :
        Built(description(heap, id, text), description(fresh, id, text))

Metavar ==
    \E id \in Configurable(heap), text \in Metavars :
        Built(metavar(heap, id, text), metavar(fresh, id, text))

Env ==
    \E id \in Configurable(heap), name \in EnvNames :
        Built(env(heap, id, name), env(fresh, id, name))

Optional ==
    \E id \in Allocated(heap) :
        /\ heap[id].kind \in LeafKinds
        /\ NextId(heap) <= MaxNodes
        /\ Built(optional(heap, id), optional(fresh, id))

Map ==
    \E id \in Allocated(heap), f \in MapFunctions :
        /\ heap[id].kind \in LeafKinds
        /\ NextId(heap) <= MaxNodes
        /\ Built(map(heap, id, f), map(fresh, id, f))

Tag ==
    \E id \in Allocated(heap), name \in TagNames :
        /\ heap[id].kind = "union"
        /\ NextId(heap) <= MaxNodes
        /\ Built(tag(heap, id, name), tag(fresh, id, name))

Logger ==
    \E id \in {root}, l \in Loggers :
        /\ heap[id].kind = "object"
        /\ Built(logger(heap, id, l), logger(fresh, id, l))

\* parser.parse(): the snapshot is the process environment.
Parse ==
    LET r == parse(heap, root, environ)
    IN  /\ heap' = r.h
        /\ out' = r.out
        /\ prototypeUsed' = prototypeUsed \cup r.out.marked
        /\ UNCHANGED <<fresh, root, environ, calls, described>>

Next ==
    \/ Secret
    \/ Default
    \/ Description
    \/ Metavar
    \/ Env
    \/ Optional
    \/ Map
    \/ Tag
    \/ Logger
    \/ Parse

Spec == Init /\ [][Next]_vars

(***************************************************************************)
(* The conversions of the built-in leaves: one leaf mounted as field A of  *)
(* an object, and parse(input) called on it with one input after another.  *)
(***************************************************************************)
\* The strings given for A: casings of the boolean words, numbers and
\* strings that start as numbers, enum literals, and others.
ConvRaws ==
    {"true", "TRUE", "True", "tRuE", "yes", "YES", "Yes", "on", "ON", "On", "1",
     "false", "FALSE", "False", "no", "NO", "No", "off", "OFF", "Off", "oFf", "0",
     "maybe", "MAYBE", "TRUEE", "", "blah",
     "8080", "808o", "3.5", "3.5.1", "12px",
     "a", "b", "c", "d"}

ConvInputs == {<<>>} \cup [{"A"} -> ConvRaws]

\* EVP.object({ A: leaf })
Single(leaf) ==
    LET h1 == New(EmptyHeap, leaf)
        h2 == New(h1, ObjectParser(<<Field("A", 1)>>))
    IN  [heap |-> h2, root |-> 2]

ConvSchemas ==
    {Single(leaf) : leaf \in {StringVariable, NumericVariable, BooleanVariable,
                              Enum(<<"a">>), Enum(<<"a", "b">>), Enum(<<"a", "b", "c">>),
                              Enum(<<"a", "b", "c", "d">>)}}

ConvInit ==
    \E schema \in ConvSchemas :
        /\ heap = schema.heap
        /\ fresh = schema.heap
        /\ root = schema.root
        /\ environ = <<>>
        /\ out = NoCall
        /\ calls = 0
        /\ prototypeUsed = {}
        /\ described = NoText

\* parser.parse(input): the snapshot is the input.
ParseInput ==
    \E input \in ConvInputs :
        LET r == parse(heap, root, input)
        IN  /\ heap' = r.h
            /\ out' = r.out
            /\ environ' = input
            /\ prototypeUsed' = prototypeUsed \cup r.out.marked
            /\ UNCHANGED <<fresh, root, calls, described>>

ConvNext == ParseInput

ConvSpec == ConvInit /\ [][ConvNext]_vars

(***************************************************************************)
(* Properties of parse and of the builder methods.  They speak about the   *)
(* last parse call (out), the tree it ran on (heap, which a builder call   *)
(* after it would reset out for) and the snapshot (environ).               *)
(***************************************************************************)
\* A parse call was made and no builder call since.
Called == out.parser # 0

\* The places in the trace of the leaves resolved by the last parse call.
LeafVisits == {i \in 1..Len(out.trace) : out.trace[i].ev = "leaf"}

\* The external key of the leaf resolved at place i: envName ?? currentKey.
KeyOf(i) ==
    IF heap[out.trace[i].node].envName # None THEN heap[out.trace[i].node].envName
    ELSE out.trace[i].name

\* The log lines emitted by the call at place i of the trace.
LinesOf(i) == SelectSeq(out.log, LAMBDA l : l.at = i)

\* The declared fields of the root, in the order of the object literal.
Declared == Names(heap[root].fields)

\* How the root's field of that name came out in the last parse call.
FieldType(name) ==
    LET at == {i \in 1..Len(out.trace) : /\ out.trace[i].ev = "field"
                                         /\ out.trace[i].node = root
                                         /\ out.trace[i].name = name}
    IN  IF at = {} THEN "unresolved" ELSE out.trace[CHOOSE i \in at : TRUE].type

FailingDeclared == SelectSeq(Declared, LAMBDA name : FieldType(name) # "success")

\* C1: parse of an Object Node fails if and only if some declared field
\* resolves to something other than success, and then it raises one Error
\* whose message is 'Unable to fill the following fields: ' followed by the
\* names of exactly the failing fields, in declared field order, joined by
\* ', ', and no value is returned.
C1_AggregateInDeclaredOrder ==
    Called =>
        /\ out.threw <=> Len(FailingDeclared) > 0
        /\ out.threw =>
              /\ out.isError
              /\ out.message = <<"Unable to fill the following fields: ">>
                               \o join(FailingDeclared, ", ")
              /\ out.value = Undefined

\* C2: in a parse call in which nothing but an Error is thrown, every
\* declared field of every visited Object Node is resolved once per visit,
\* also the fields declared after a failing sibling, and every leaf reached
\* has a log line.
C2_NoShortCircuit ==
    (Called /\ ~(out.threw /\ ~out.isError)) =>
        /\ \A i \in 1..Len(out.trace) :
              out.trace[i].ev = "object" =>
                  LET n == out.trace[i].node
                      visits == {j \in 1..Len(out.trace) : /\ out.trace[j].ev = "object"
                                                           /\ out.trace[j].node = n}
                  IN  \A f \in 1..Len(heap[n].fields) :
                          Cardinality({j \in 1..Len(out.trace) :
                                          /\ out.trace[j].ev = "field"
                                          /\ out.trace[j].node = n
                                          /\ out.trace[j].name = heap[n].fields[f].name})
                          = Cardinality(visits)
        /\ \A i \in LeafVisits : Len(LinesOf(i)) >= 1

\* The selector a union reads under key k: the snapshot's string, or the
\* default.
Chosen(node, k) ==
    IF k \in DOMAIN environ THEN Str(environ[k]) ELSE toUndefined(node.defaultValue)

RECURSIVE Provided(_, _)
\* The snapshot has a valid string for every leaf reached below parser id
\* mounted under key, and every union reached selects one of its variants.
Provided(id, key) ==
    LET node == heap[id]
        k == IF node.envName # None THEN node.envName ELSE key
    IN  CASE node.kind \in LeafKinds ->
                 /\ k \in DOMAIN environ
                 /\ ~VariableParse(heap, id, Str(environ[k])).threw
          [] node.kind = "object" ->
                 \A f \in 1..Len(node.fields) :
                     Provided(node.fields[f].node, node.fields[f].name)
          [] node.kind \in {"union", "tagged"} ->
                 /\ Chosen(node, k).t = "string"
                 /\ HasOwn(node.fields, Chosen(node, k).s)
                 /\ Provided(Own(node.fields, Chosen(node, k).s).node, key)

\* The names of the properties of an object value.
NamesOf(v) == {v.f[i].name : i \in 1..Len(v.f)}

RECURSIVE Holds(_, _, _)
\* Value v is what parser id mounted under key stands for in the snapshot:
\* the conversion of the key's string for a leaf, an object with exactly
\* the declared names for an Object Node, the selected variant's object for
\* a union, with the tag property added for a tagged union.
Holds(v, id, key) ==
    LET node == heap[id]
        k == IF node.envName # None THEN node.envName ELSE key
    IN  CASE node.kind \in LeafKinds ->
                 v = VariableParse(heap, id, Str(environ[k])).value
          [] node.kind = "object" ->
                 /\ v.t = "object"
                 /\ Len(v.f) = Len(node.fields)
                 /\ NamesOf(v) = Range(Names(node.fields))
                 /\ \A f \in 1..Len(node.fields) :
                        Holds(Own(v.f, node.fields[f].name).value,
                              node.fields[f].node, node.fields[f].name)
          [] node.kind = "union" ->
                 Holds(v, Own(node.fields, Chosen(node, k).s).node, key)
          [] node.kind = "tagged" ->
                 LET variant == heap[Own(node.fields, Chosen(node, k).s).node]
                 IN  /\ v.t = "object"
                     /\ NamesOf(v) = Range(Names(variant.fields)) \cup {node.tag}
                     /\ Len(v.f) = Cardinality(NamesOf(v))
                     /\ node.tag \notin Range(Names(variant.fields)) =>
                            Own(v.f, node.tag).value = Chosen(node, k)
                     /\ \A f \in 1..Len(variant.fields) :
                            Holds(Own(v.f, variant.fields[f].name).value,
                                  variant.fields[f].node, variant.fields[f].name)

\* C3: when the snapshot has a valid string for every leaf reached (and so
\* every union reached has a selected variant), parse succeeds and returns
\* an object with exactly the declared field names, each leaf field holding
\* the conversion of its own key's string, each nested Object Node a nested
\* object of the same shape, each union field the selected variant's object.
C3_ValidSnapshotParses ==
    (Called /\ Provided(root, None)) => (~out.threw /\ Holds(out.value, root, None))

\* A parse of a valid snapshot through a tagged union and a nested object.
C3_Witness ==
    /\ Called
    /\ Provided(root, None)
    /\ \E i \in 1..Len(out.trace) : out.trace[i].ev = "tagged"
    /\ \E i \in 1..Len(out.trace) : out.trace[i].ev = "object" /\ out.trace[i].node # root
    /\ \E i \in LeafVisits : out.trace[i].type = "success"

\* C4: no log line emitted for a secret-marked leaf holds the leaf's raw
\* input value, whether the conversion succeeds or fails.
C4_SecretNeverLogged ==
    Called =>
        \A i \in LeafVisits :
            (heap[out.trace[i].node].isSecret /\ KeyOf(i) \in DOMAIN environ) =>
                \A l \in 1..Len(LinesOf(i)) :
                    environ[KeyOf(i)] \notin Range(Tail(LinesOf(i)[l].text))

C6_ParseIsPure == Called => out = parse(fresh, root, environ).out

\* What resolving leaf id under key gives on heap h: the result and the
\* log lines.
Resolution(h, id, key) ==
    LET r == ParseContext(id, key, NewContext(h, environ))
    IN  [type |-> r.type, value |-> r.value, isError |-> r.isError, message |-> r.message,
         log |-> [i \in 1..Len(r.m.log) |->
                    [chan |-> r.m.log[i].chan, text |-> r.m.log[i].text]]]

\* C7: a call of secret, default, description, metavar or env leaves every
\* leaf that existed before the call resolving as it did: same result, same
\* log lines.
C7_ModifierReturnsNewLeaf ==
    [][(Secret \/ Default \/ Description \/ Metavar \/ Env) =>
          \A id \in Allocated(heap) :
              heap[id].kind \in LeafKinds =>
                  \A key \in SnapKeys :
                      Resolution(heap', id, key) = Resolution(heap, id, key)]_vars

\* C8: a leaf whose key the snapshot omits yields, with a default
\* configured (of undefined too), success with the default value and one
\* info line ending in ' (default)', and with no default, missing.
C8_AbsentKey ==
    Called =>
        \A i \in LeafVisits :
            KeyOf(i) \notin DOMAIN environ =>
                IF heap[out.trace[i].node].defaultValue.tag = "some"
                THEN /\ out.trace[i].type = "success"
                     /\ out.trace[i].value = heap[out.trace[i].node].defaultValue.value
                     /\ Len(LinesOf(i)) = 1
                     /\ LinesOf(i)[1].chan = "info"
                     /\ LinesOf(i)[1].text[Len(LinesOf(i)[1].text)] = " (default)"
                ELSE out.trace[i].type = "missing"

\* C9: for every leaf X, with whatever modifiers applied to it, and every
\* key, X.optional() resolves as X.default(undefined) does: same external
\* key, same result, same log lines.
C9_OptionalIsDefaultUndefined ==
    \A w \in Allocated(heap) :
        (heap[w].kind = "optional" /\ heap[w] = OptionalVariable(heap[w].variable)) =>
            \A key \in SnapKeys :
                Resolution(heap, w, key)
                = Resolution(default(heap, heap[w].variable, Undefined),
                             heap[w].variable, key)

\* C10: unless a callback throws something that is no Error, the only
\* exception parse raises is the aggregate failure, whose message starts
\* with 'Unable to fill the following fields: '.
C10_OnlyAggregateThrown ==
    (Called /\ out.threw /\ out.isError) =>
        (Len(out.message) > 0 /\ out.message[1] = "Unable to fill the following fields: ")

\* The ObjectParser whose field the call at place i of the trace resolves.
ParentOf(i) == IF i > 1 /\ out.trace[i - 1].ev = "field" THEN out.trace[i - 1].node ELSE 0

\* The resolutions of a map(f) leaf whose key is present and whose wrapped
\* variable converts the string.
MapVisits ==
    {i \in LeafVisits :
        /\ heap[out.trace[i].node].kind = "map"
        /\ KeyOf(i) \in DOMAIN environ
        /\ ~VariableParse(heap, heap[out.trace[i].node].variable,
                          Str(environ[KeyOf(i)])).threw}

\* What f does with the value the wrapped variable converted, at place i.
Mapped(i) ==
    Apply(heap[out.trace[i].node].f, heap,
          VariableParse(heap, heap[out.trace[i].node].variable,
                        Str(environ[KeyOf(i)])).value)

\* C11: a map(f) leaf whose key is present and whose base conversion
\* succeeds results in f of the converted value; when f throws an Error the
\* leaf's result is error, with one error-channel line, the field is named
\* in the aggregate failure and all its siblings are resolved; when f throws
\* a value that is no Error, that value leaves parse unchanged.
C11_MapLeaf ==
    Called =>
        \A i \in MapVisits :
            IF ~Mapped(i).threw
            THEN /\ out.trace[i].type = "success"
                 /\ out.trace[i].value = Mapped(i).value
            ELSE IF Mapped(i).isError
            THEN /\ out.trace[i].type = "error"
                 /\ Len(LinesOf(i)) = 1
                 /\ LinesOf(i)[1].chan = "error"
                 /\ \A f \in 1..Len(heap[ParentOf(i)].fields) :
                        \E j \in 1..Len(out.trace) :
                            /\ out.trace[j].ev = "field"
                            /\ out.trace[j].node = ParentOf(i)
                            /\ out.trace[j].name = heap[ParentOf(i)].fields[f].name
                            /\ out.trace[j].type # "pending"
                 /\ ParentOf(i) = root =>
                        /\ out.threw /\ out.isError
                        /\ out.message[1] = "Unable to fill the following fields: "
                        /\ out.trace[i].name \in Range(Tail(out.message))
            ELSE /\ out.trace[i].type = "throw"
                 /\ out.threw /\ ~out.isError
                 /\ out.value = Mapped(i).value

\* A map(f) leaf whose f threw an Error, with a sibling resolved after it.
C11_Witness ==
    /\ Called
    /\ \E i \in MapVisits :
          /\ Mapped(i).threw /\ Mapped(i).isError
          /\ ParentOf(i) = root
          /\ \E j \in LeafVisits : j > i

\* 'a', 'a or b', 'a, b, or c': the natural-language list of the items.
NaturalList(items) ==
    IF Len(items) = 1 THEN <<items[1]>>
    ELSE IF Len(items) = 2 THEN <<items[1], " or ", items[2]>>
    ELSE join(SubSeq(items, 1, Len(items) - 1), ", ") \o <<", or ", items[Len(items)]>>

\* The resolutions of a leaf of that class whose key is present.
VisitsOf(kind) ==
    {i \in LeafVisits : heap[out.trace[i].node].kind = kind /\ KeyOf(i) \in DOMAIN environ}

\* The error line of a failed conversion at place i: '<key>=<raw> ERROR: <message>'
ErrorLine(i, message) ==
    [chan |-> "error",
     text |-> <<KeyOf(i), "=", environ[KeyOf(i)], " ERROR: ">> \o message,
     at |-> i]

\* C12: in every parse call, whatever parses ran on the tree before, an
\* enum leaf returns the raw string if and only if it is one of the
\* literals the enum was declared with, and otherwise fails with 'it must
\* be <list>, but got <raw>', <list> joining all the declared literals.
C12_EnumConversion ==
    Called =>
        \A i \in VisitsOf("enum") :
            LET raw == environ[KeyOf(i)]
                declared == fresh[out.trace[i].node].values
            IN  IF raw \in Range(declared)
                THEN out.trace[i].type = "success" /\ out.trace[i].value = Str(raw)
                ELSE /\ out.trace[i].type = "error"
                     /\ LinesOf(i) = <<ErrorLine(i, <<"it must be ">> \o NaturalList(declared)
                                                    \o <<", but got ", raw>>)>>

\* A string is a number as a whole, not only in its beginning.
WellFormedNumber(s) == s \in DOMAIN NumericPrefix /\ NumericPrefix[s] = s

\* C13: a number leaf fails, with one error line '<key>=<raw> ERROR: invalid
\* number' and the aggregate failure raised by parse, for every raw string
\* that is not a number ('808o' and 'blah' alike), and succeeds with the
\* numeric value for a well-formed number.
C13_NumberConversion ==
    Called =>
        \A i \in VisitsOf("number") :
            LET raw == environ[KeyOf(i)]
            IN  IF WellFormedNumber(raw)
                THEN out.trace[i].type = "success" /\ out.trace[i].value = Num(raw)
                ELSE /\ out.trace[i].type = "error"
                     /\ LinesOf(i) = <<ErrorLine(i, <<"invalid number">>)>>
                     /\ out.threw /\ out.isError
                     /\ out.message[1] = "Unable to fill the following fields: "

\* The casings of the words that stand for true and for false.
TrueStrings == {"true", "TRUE", "True", "tRuE", "yes", "YES", "Yes", "on", "ON", "On", "1"}

FalseStrings ==
    {"false", "FALSE", "False", "no", "NO", "No", "off", "OFF", "Off", "oFf", "0"}

\* C14: every casing of true, yes, on and 1 converts to true, every casing
\* of false, no, off and 0 to false, and every other string fails with
\* 'invalid boolean'.
C14_BooleanConversion ==
    Called =>
        \A i \in VisitsOf("boolean") :
            LET raw == environ[KeyOf(i)]
            IN  CASE raw \in TrueStrings ->
                       out.trace[i].type = "success" /\ out.trace[i].value = Bool("true")
                  [] raw \in FalseStrings ->
                       out.trace[i].type = "success" /\ out.trace[i].value = Bool("false")
                  [] OTHER ->
                       /\ out.trace[i].type = "error"
                       /\ LinesOf(i) = <<ErrorLine(i, <<"invalid boolean">>)>>

\* A boolean leaf converted a word written in mixed case.
C14_Witness ==
    /\ Called
    /\ \E i \in VisitsOf("boolean") :
          /\ environ[KeyOf(i)] \in {"tRuE", "oFf"}
          /\ out.trace[i].type = "success"

\* The places in the trace of the unions of that class that selected one of
\* their variants; the variant's ObjectParser is called at the next place.
Selections(kind) ==
    {i \in 1..(Len(out.trace) - 1) :
        /\ out.trace[i].ev = kind
        /\ Chosen(heap[out.trace[i].node], KeyOf(i)).t = "string"
        /\ HasOwn(heap[out.trace[i].node].fields,
                  Chosen(heap[out.trace[i].node], KeyOf(i)).s)}

\* The places in the trace of the fields resolved by the ObjectParser
\* called at place o.
FieldsOf(o) ==
    {j \in (o + 1)..Len(out.trace) :
        /\ out.trace[j].ev = "field"
        /\ out.trace[j].node = out.trace[o].node}

\* C15: a tagged union that resolves successfully returns an object with
\* every field value of the winning variant and the discriminator field
\* holding the name of the selected variant; when the winning variant
\* fails, the union's result is that failure, with no tag.
C15_TagIdentifiesVariant ==
    Called =>
        \A i \in Selections("tagged") :
            IF out.trace[i + 1].type = "success"
            THEN /\ out.trace[i].type = "success"
                 /\ \A j \in FieldsOf(i + 1) :
                        /\ HasOwn(out.trace[i].value.f, out.trace[j].name)
                        /\ Own(out.trace[i].value.f, out.trace[j].name).value
                           = out.trace[j].value
                 /\ HasOwn(out.trace[i].value.f, heap[out.trace[i].node].tag)
                 /\ Own(out.trace[i].value.f, heap[out.trace[i].node].tag).value
                    = Chosen(heap[out.trace[i].node], KeyOf(i))
            ELSE /\ out.trace[i].type = out.trace[i + 1].type
                 /\ out.trace[i].value = out.trace[i + 1].value

\* The places in the trace of the unions whose selector is defined and
\* names none of their options.
Rejections ==
    {i \in 1..Len(out.trace) :
        /\ out.trace[i].ev \in {"union", "tagged"}
        /\ Chosen(heap[out.trace[i].node], KeyOf(i)) # Undefined
        /\ ~HasOwn(heap[out.trace[i].node].fields,
                   Chosen(heap[out.trace[i].node], KeyOf(i)).s)}

\* C16: for every selector that is present (or the default) and is not one
\* of the union's option names, a tagged or untagged union results in error
\* with the one error line '<key>=<raw> ERROR: it must be <options>, but got
\* <raw>', resolves no variant and throws nothing.
C16_CheckedLookup ==
    Called =>
        \A i \in Rejections :
            LET node == heap[out.trace[i].node]
                raw == Chosen(node, KeyOf(i)).s
            IN  /\ out.trace[i].type = "error"
                /\ LinesOf(i) = <<[chan |-> "error",
                                   text |-> <<KeyOf(i), "=", raw, " ERROR: ", "it must be ">>
                                            \o NaturalList(Names(node.fields))
                                            \o <<", but got ", raw>>,
                                   at |-> i]>>
                /\ (i = Len(out.trace) \/ out.trace[i + 1].ev = "field")

\* The places in the trace of the unions whose selector key the snapshot
\* omits.
Absences ==
    {i \in 1..Len(out.trace) :
        /\ out.trace[i].ev \in {"union", "tagged"}
        /\ KeyOf(i) \notin DOMAIN environ}

\* The union has a default that names one of its variants.
HasDefaultVariant(node) ==
    /\ node.defaultValue.tag = "some"
    /\ node.defaultValue.value.t = "string"
    /\ HasOwn(node.fields, node.defaultValue.value.s)

\* C17: a union whose selector key is absent resolves the default variant
\* when one is configured, with success whenever that variant's fields
\* resolve, and results in missing with the one error line '<key>=undefined
\* ERROR: missing environment variable' when no default is configured,
\* whatever other keys the snapshot has.
C17_AbsentSelector ==
    Called =>
        \A i \in Absences :
            LET node == heap[out.trace[i].node]
            IN  IF HasDefaultVariant(node)
                THEN /\ i < Len(out.trace)
                     /\ out.trace[i + 1].ev = "object"
                     /\ out.trace[i + 1].node
                        = Own(node.fields, node.defaultValue.value.s).node
                     /\ out.trace[i + 1].type = "success" => out.trace[i].type = "success"
                ELSE node.defaultValue.tag = "none" =>
                        /\ out.trace[i].type = "missing"
                        /\ LinesOf(i)
                           = <<[chan |-> "error",
                                text |-> <<KeyOf(i), "=", "undefined", " ERROR: ",
                                           "missing environment variable">>,
                                at |-> i]>>

\* A union took its default variant, in a snapshot that has other keys.
C17_Witness ==
    /\ Called
    /\ environ # <<>>
    /\ \E i \in Absences :
          /\ HasDefaultVariant(heap[out.trace[i].node])
          /\ out.trace[i].type = "success"

\* The last place in the trace of the call made at place i.
EndOf(i) ==
    LET later == {j \in (i + 1)..Len(out.trace) :
                     out.trace[j].ev = "field" /\ out.trace[j].node = ParentOf(i)}
    IN  IF later = {} THEN Len(out.trace)
        ELSE (CHOOSE j \in later : \A l \in later : j <= l) - 1

\* The channel and the text of the lines of a log.
Lines(log) == [l \in 1..Len(log) |-> [chan |-> log[l].chan, text |-> log[l].text]]

\* C18: an untagged union that selects variant v returns exactly what
\* resolving v's Object Node against the same snapshot gives: the selector
\* is not added, the variant's fields read top-level keys and log as they
\* would alone, and the keys they read are marked used in the call's
\* Context.
C18_UntaggedDelegates ==
    Called =>
        \A i \in Selections("union") :
            LET node == heap[out.trace[i].node]
                v == Own(node.fields, Chosen(node, KeyOf(i)).s).node
                r == ParseContext(v, KeyOf(i), NewContext(heap, environ))
            IN  /\ out.trace[i + 1].node = v
                /\ out.trace[i].type = r.type
                /\ out.trace[i].value = r.value
                /\ Lines(SelectSeq(out.log, LAMBDA l : l.at >= i /\ l.at <= EndOf(i)))
                   = Lines(r.m.log)
                /\ \A k \in DOMAIN r.m.env : r.m.env[k].used => out.env[k].used

\* An untagged union selected a variant with a field, and it resolved.
C18_Witness ==
    /\ Called
    /\ \E i \in Selections("union") :
          /\ out.trace[i].type = "success"
          /\ FieldsOf(i + 1) # {}

\* C19: every leaf and every union selector reads one snapshot key per
\* resolution, the env() override if one is set and the name of the field
\* it is mounted under otherwise, at any depth: the keys marked used are
\* the keys of the leaves resolved, each leaf's line and result are those
\* of its key's string, each union selects by its key's string, and a
\* tagged union whose key is absent is missing even when the snapshot has
\* a key named as its discriminator.
C19_OneKeyPerResolution ==
    Called =>
        /\ {k \in DOMAIN out.env : out.env[k].used}
           = {KeyOf(i) : i \in LeafVisits} \cap DOMAIN environ
        /\ \A i \in LeafVisits :
              KeyOf(i) \in DOMAIN environ =>
                  LET r == VariableParse(heap, out.trace[i].node, Str(environ[KeyOf(i)]))
                  IN  /\ out.trace[i].type # "throw" =>
                             /\ Len(LinesOf(i)) = 1
                             /\ LinesOf(i)[1].text[1] = KeyOf(i)
                      /\ out.trace[i].type = "success" <=> ~r.threw
                      /\ out.trace[i].type = "success" => out.trace[i].value = r.value
        /\ \A i \in 1..Len(out.trace) :
              out.trace[i].ev \in {"union", "tagged"} =>
                  LET node == heap[out.trace[i].node]
                  IN  /\ (/\ KeyOf(i) \in DOMAIN environ
                          /\ HasOwn(node.fields, environ[KeyOf(i)])) =>
                             /\ i < Len(out.trace)
                             /\ out.trace[i + 1].node
                                = Own(node.fields, environ[KeyOf(i)]).node
                      /\ (/\ KeyOf(i) \notin DOMAIN environ
                          /\ node.defaultValue.tag = "none") =>
                             out.trace[i].type = "missing"

\* A tagged union came out missing in a snapshot that has a key named as
\* its discriminator, and not its selector key.
C19_Witness ==
    /\ Called
    /\ \E i \in 1..Len(out.trace) :
          /\ out.trace[i].ev = "tagged"
          /\ heap[out.trace[i].node].tag \in DOMAIN environ
          /\ KeyOf(i) \notin DOMAIN environ
          /\ out.trace[i].type = "missing"

\* The log lines (their places in the log) emitted during the call traced
\* at place j.
LinesDuring(j) ==
    {l \in 1..Len(out.log) : out.log[l].at >= j /\ out.log[l].at <= out.trace[j].end}

\* The place of the field of that name in the declaration of ObjectParser n.
DeclaredAt(n, name) ==
    CHOOSE f \in 1..Len(heap[n].fields) : heap[n].fields[f].name = name

\* C20: the log lines follow a depth-first traversal in declared field
\* order, for any field names: every line of the subtree of a field
\* precedes every line of the subtree of a field declared after it in the
\* same Object Node, and a tagged union's selector line precedes the lines
\* of its variant's fields.
C20_LogInDeclaredOrder ==
    Called =>
        /\ \A o \in 1..Len(out.trace) :
              out.trace[o].ev = "object" =>
                  \A ja \in FieldsOf(o), jb \in FieldsOf(o) :
                      DeclaredAt(out.trace[o].node, out.trace[ja].name)
                      < DeclaredAt(out.trace[o].node, out.trace[jb].name) =>
                          \A la \in LinesDuring(ja), lb \in LinesDuring(jb) : la < lb
        /\ \A i \in 1..Len(out.trace) :
              out.trace[i].ev = "tagged" =>
                  \A la \in LinesDuring(i), lb \in LinesDuring(i) :
                      (out.log[la].at = i /\ out.log[lb].at > i) => la < lb

\* The keys k for which ctx.values[k].used is true in the Context of the
\* last parse call, once it has ended: own keys, and inherited ones.
UsedInContext ==
    {k \in DOMAIN out.env : out.env[k].used} \cup (prototypeUsed \ DOMAIN out.env)

\* C21: every parse call has its own Context, in which every key starts with
\* used = false whatever parse calls were made before: a used flag seen in
\* the Context of a call was set by that call, for the key of a leaf it
\* resolved.
C21_ContextPerCall ==
    Called => UsedInContext \subseteq {KeyOf(i) : i \in LeafVisits}

(***************************************************************************)
(* Unused environment variables (README, 'Detecting Unused Environment     *)
(* Variables'): assumePrefix, reportUnused and rejectUnused of an          *)
(* ObjectParser, and what parse does with them after the fields were       *)
(* resolved.  The engine of mod.ts sets the used flags; the methods        *)
(* themselves are described by the README and the specification only.      *)
(***************************************************************************)
\* String.prototype.startsWith on the keys and prefixes of the model.
startsWith(key, prefix) ==
    <<key, prefix>> \in {<<"APP_FOO", "APP_">>, <<"APP_BAR", "APP_">>}

assumePrefix(h, id, prefix) == [h EXCEPT ![id].prefixes = @ \cup {prefix}]

reportUnused(h, id) == [h EXCEPT ![id].unused = "report"]

rejectUnused(h, id) == [h EXCEPT ![id].unused = "reject"]

\* The order in which Object.entries gives the keys of a snapshot.
KeyOrder == <<"APP_FOO", "APP_BAR", "HOME">>

\* The keys of the Context that match an assumed prefix and were not used.
UnusedKeys(node, ctxEnv) ==
    SelectSeq(KeyOrder, LAMBDA k : /\ k \in DOMAIN ctxEnv
                                   /\ \E p \in node.prefixes : startsWith(k, p)
                                   /\ ~ctxEnv[k].used)

\* parse of an ObjectParser that detects unused variables: the fields are
\* resolved, the unused keys reported to the logger, and under rejectUnused
\* a parse that succeeded fails.
parseUnused(h, id, input) ==
    LET r == parse(h, id, input)
        unused == UnusedKeys(h[id], r.out.env)
        line == [chan |-> "error",
                 text |-> <<"Unused variables: ">> \o join(unused, ", "), at |-> 0]
        reported == [r.out EXCEPT !.log = Append(@, line)]
    IN  IF h[id].unused = "ignore" \/ Len(unused) = 0 THEN r
        ELSE IF h[id].unused = "report" \/ r.out.threw THEN [h |-> r.h, out |-> reported]
        ELSE [h |-> r.h,
              out |-> [reported EXCEPT !.threw = TRUE, !.isError = TRUE,
                                       !.value = Undefined,
                                       !.message = <<"Unused variables: ">>
                                                   \o join(unused, ", ")]]

UnusedSnapKeys == {"APP_FOO", "APP_BAR", "HOME"}

UnusedSnapshots == UNION {[D -> {"c", "1o"}] : D \in SUBSET UnusedSnapKeys}

Prefixes == {"APP_"}

\* The schema of the README, and the same with a nested object whose leaf
\* reads HOME and with a number leaf.
UnusedSchemas ==
    LET h1 == New(EmptyHeap, StringVariable)
        h2 == New(h1, ObjectParser(<<Field("APP_FOO", 1)>>))
        g2 == New(h1, NumericVariable)
        g3 == New(g2, ObjectParser(<<Field("HOME", 1)>>))
        g4 == New(g3, ObjectParser(<<Field("APP_FOO", 2), Field("N", 3)>>))
    IN  {[heap |-> h2, root |-> 2], [heap |-> g4, root |-> 4]}

UnusedInit ==
    \E schema \in UnusedSchemas :
        /\ heap = schema.heap
        /\ fresh = schema.heap
        /\ root = schema.root
        /\ environ \in UnusedSnapshots
        /\ out = NoCall
        /\ calls = 0
        /\ prototypeUsed = {}
        /\ described = NoText

\* A call that configures the root and leaves heap h.
Configured(h, g) ==
    /\ h # heap
    /\ heap' = h
    /\ fresh' = g
    /\ out' = NoCall
    /\ UNCHANGED <<root, environ, calls, prototypeUsed, described>>

AssumePrefix ==
    \E prefix \in Prefixes :
        Configured(assumePrefix(heap, root, prefix), assumePrefix(fresh, root, prefix))

ReportUnused == Configured(reportUnused(heap, root), reportUnused(fresh, root))

RejectUnused == Configured(rejectUnused(heap, root), rejectUnused(fresh, root))

ParseUnused ==
    LET r == parseUnused(heap, root, environ)
    IN  /\ heap' = r.h
        /\ out' = r.out
        /\ prototypeUsed' = prototypeUsed \cup r.out.marked
        /\ UNCHANGED <<fresh, root, environ, calls, described>>

UnusedNext ==
    \/ AssumePrefix
    \/ ReportUnused
    \/ RejectUnused
    \/ ParseUnused

UnusedSpec == UnusedInit /\ [][UnusedNext]_vars

\* The snapshot keys that start with an assumed prefix and are the key of
\* no leaf resolved by the last parse call.
Unread ==
    {k \in DOMAIN environ :
        /\ \E p \in heap[root].prefixes : startsWith(k, p)
        /\ k \notin {KeyOf(i) : i \in LeafVisits}}

\* The keys named by the 'Unused variables' lines of the last parse call.
Reported ==
    UNION {Range(Tail(out.log[l].text)) \ {", "} :
              l \in {l \in 1..Len(out.log) : out.log[l].text[1] = "Unused variables: "}}

\* C22: with assumePrefix(P) and rejectUnused(), parse fails whenever the
\* snapshot has a key that starts with P and that no leaf read, also when
\* every declared field parsed; the keys reported are those keys, never a
\* key that does not start with P; without rejectUnused, and when no such
\* key exists, parse fails only if a declared field fails.
C22_UnusedKeys ==
    Called =>
        /\ (heap[root].unused = "reject" /\ Unread # {}) => (out.threw /\ out.isError)
        /\ heap[root].unused # "ignore" => Reported = Unread
        /\ \A k \in Reported : \E p \in heap[root].prefixes : startsWith(k, p)
        /\ (heap[root].unused # "reject" \/ Unread = {}) =>
              (out.threw <=> Len(FailingDeclared) > 0)

\* Under assumePrefix and rejectUnused every declared field parsed, and the
\* parse failed for an unused key, in a snapshot that also has a key
\* without the prefix that no leaf read.
C22_Witness ==
    /\ Called
    /\ heap[root].unused = "reject"
    /\ Len(FailingDeclared) = 0
    /\ out.threw
    /\ Unread # {}
    /\ "HOME" \in DOMAIN environ
    /\ "HOME" \notin {KeyOf(i) : i \in LeafVisits}

(***************************************************************************)
(* describe() of the parsers: the schemas of part_007's describe tests,    *)
(* builder calls, and describe called on a parser as its parent calls it   *)
(* (with the field name) or as the program does (with no key).             *)
(***************************************************************************)
\* A union whose default variant has a description, a described field and
\* an optional field.
Variants ==
    LET h1 == description(New(EmptyHeap, StringVariable), 1, "doc")
        h2 == New(h1, StringVariable)
        h3 == optional(h2, 2)
        h4 == description(New(h3, ObjectParser(<<Field("A", 1), Field("B", 3)>>)), 4, "doc")
        h5 == New(h4, ObjectParser(<<>>))
        h6 == default(New(h5, UntaggedUnionParser(<<Field("b", 4), Field("c", 5)>>)),
                      6, Str("b"))
        h7 == New(h6, ObjectParser(<<Field("A", 6)>>))
    IN  [heap |-> h7, root |-> 7]

\* A union with a variant whose name is a number.
Numbered ==
    LET h1 == New(EmptyHeap, ObjectParser(<<>>))
        h2 == New(h1, StringVariable)
        h3 == New(h2, ObjectParser(<<Field("B", 2)>>))
        h4 == New(h3, UntaggedUnionParser(<<Field("b", 1), Field("1", 3)>>))
        h5 == New(h4, ObjectParser(<<Field("A", 4)>>))
    IN  [heap |-> h5, root |-> 5]

DescribeSchemas == {Tagged, Untagged, Variants, Numbered}

DescribeKeys == {None, "A"}

DescribeInit ==
    \E schema \in DescribeSchemas :
        /\ heap = schema.heap
        /\ fresh = schema.heap
        /\ root = schema.root
        /\ environ = <<>>
        /\ out = NoCall
        /\ calls = 0
        /\ prototypeUsed = {}
        /\ described = NoText

\* parser.describe(key)
Describe ==
    \E id \in Allocated(heap), key \in DescribeKeys :
        /\ described' = [node |-> id, key |-> key, lines |-> describe(heap, id, key, None)]
        /\ UNCHANGED <<heap, fresh, root, environ, out, calls, prototypeUsed>>

DescribeNext ==
    \/ Default
    \/ Description
    \/ Metavar
    \/ Env
    \/ Tag
    \/ Describe

DescribeSpec == DescribeInit /\ [][DescribeNext]_vars

\* describe was called on a union, and no builder call since.
DescribedUnion ==
    described.node # 0 /\ heap[described.node].kind \in {"union", "tagged"}

\* The blocks of a text: the runs of lines between its empty lines.
RECURSIVE Blocks(_)
Blocks(lines) ==
    LET blanks == {i \in 1..Len(lines) : lines[i] = <<>>}
        first == CHOOSE i \in blanks : \A j \in blanks : i <= j
    IN  IF blanks = {} THEN <<lines>>
        ELSE <<SubSeq(lines, 1, first - 1)>> \o Blocks(SubSeq(lines, first + 1, Len(lines)))

\* The key of the selector in the text of the union described last.
SelectorKey ==
    IF heap[described.node].envName # None THEN heap[described.node].envName
    ELSE IF described.key # None THEN described.key ELSE ""

\* The variant's own describe output with a line placed before its fields.
WithSelector(v, name, line) ==
    LET own == IF Len(heap[v].fields) = 0 /\ heap[v].description = None THEN <<>>
               ELSE describe(heap, v, name, None)
        heads == IF heap[v].description # None THEN 1 ELSE 0
    IN  SubSeq(own, 1, heads) \o <<line>> \o SubSeq(own, heads + 1, Len(own))

\* C23: describe() of a union gives one block per variant, in declared
\* order; every line of a block of a variant that is not the default
\* starts with '#'; the block of the default variant is the variant's own
\* describe output with the line '<selectorKey>=<variantName>' before its
\* fields, not commented out; with no default every line of every block
\* starts with '#'.
C23_UnionDescribe ==
    DescribedUnion =>
        LET u == heap[described.node]
            blocks == Blocks(described.lines)
        IN  /\ Len(blocks) = Len(u.fields)
            /\ \A j \in 1..Len(u.fields) :
                   LET name == u.fields[j].name
                       line == <<SelectorKey, "=", name>>
                   IN  IF toUndefined(u.defaultValue) = Str(name)
                       THEN blocks[j] = WithSelector(u.fields[j].node, name, line)
                       ELSE /\ \A l \in 1..Len(blocks[j]) : StartsWithHash(blocks[j][l])
                            /\ <<"# ">> \o line \in Range(blocks[j])
            /\ ~HasDefaultVariant(u) =>
                   \A l \in 1..Len(described.lines) :
                       described.lines[l] # <<>> => StartsWithHash(described.lines[l])

\* C24: a call p.logger(l) returns a parser that logs to l, and changes the
\* logger of no parser that existed before the call: p itself, and a parser
\* that an earlier logger call on p returned, keep logging where they did.
C24_LoggerReturnsNewParser ==
    [][\A l \in Loggers :
          (Logger /\ heap' = logger(heap, root, l)) =>
              /\ \E id \in Allocated(heap') : heap'[id].logger = l
              /\ \A id \in Allocated(heap) : heap'[id].logger = heap[id].logger]_vars

\* parse raised the aggregate failure of fromParseResults.
AggregateRaised ==
    /\ out.threw
    /\ out.isError
    /\ Len(out.message) > 0
    /\ out.message[1] = "Unable to fill the following fields: "

\* C25: parse raises the aggregate failure if and only if an error-channel
\* line was emitted during the call; a parse that succeeds emits info lines
\* only; every parser that resolves to missing or error has an
\* error-channel line emitted by it or by a parser below it.
C25_FailureIffErrorLine ==
    Called =>
        /\ AggregateRaised <=> \E l \in 1..Len(out.log) : out.log[l].chan = "error"
        /\ ~out.threw => \A l \in 1..Len(out.log) : out.log[l].chan = "info"
        /\ \A i \in 1..Len(out.trace) :
              (out.trace[i].ev # "field" /\ out.trace[i].type \in {"missing", "error"}) =>
                  \E l \in LinesDuring(i) : out.log[l].chan = "error"

\* C25, amended: parse raises the aggregate failure only if an
\* error-channel line was emitted during the call; when an error-channel
\* line was emitted parse does not return: it raises the aggregate failure,
\* unless an exception left the resolution, which parse then raises
\* instead; a parse that succeeds emits info lines only; every parser that
\* resolves to missing or error has an error-channel line emitted by it or
\* by a parser below it.
C25_FailureHasErrorLine ==
    Called =>
        /\ AggregateRaised => \E l \in 1..Len(out.log) : out.log[l].chan = "error"
        /\ (\E l \in 1..Len(out.log) : out.log[l].chan = "error") =>
              /\ out.threw
              /\ out.trace[1].type # "throw" => AggregateRaised
              /\ out.trace[1].type = "throw" => ~AggregateRaised
        /\ ~out.threw => \A l \in 1..Len(out.log) : out.log[l].chan = "info"
        /\ \A i \in 1..Len(out.trace) :
              (out.trace[i].ev # "field" /\ out.trace[i].type \in {"missing", "error"}) =>
                  \E l \in LinesDuring(i) : out.log[l].chan = "error"

\* An error-channel line was emitted for a field, and parse raised what
\* the callback of a later field threw, not the aggregate failure.
C25_Witness ==
    /\ Called
    /\ \E l \in 1..Len(out.log) : out.log[l].chan = "error"
    /\ out.threw
    /\ ~out.isError
    /\ out.value = Str("error")

\* The places in the trace of the unions resolved by the last parse call.
UnionVisits == {i \in 1..Len(out.trace) : out.trace[i].ev \in {"union", "tagged"}}

\* C26: after a parse every snapshot key whose value the resolution read,
\* as the key of a leaf or as the selector key of a union, has used = true.
C26_SelectorMarkedUsed ==
    Called =>
        \A i \in LeafVisits \cup UnionVisits :
            KeyOf(i) \in DOMAIN environ => out.env[KeyOf(i)].used

\* The resolutions of a leaf that has a default, whose key is present, and
\* whose conversion throws an Error for the key's string.
RejectedWithDefault ==
    {i \in LeafVisits :
        /\ heap[out.trace[i].node].defaultValue.tag = "some"
        /\ KeyOf(i) \in DOMAIN environ
        /\ VariableParse(heap, out.trace[i].node, Str(environ[KeyOf(i)])).threw
        /\ VariableParse(heap, out.trace[i].node, Str(environ[KeyOf(i)])).isError}

\* C27: a default never masks a bad input: a leaf with a default whose key
\* is present with a string that its conversion rejects results in error,
\* with the one error-channel line '<key>=<raw> ERROR: ...' and no
\* ' (default)' line, no value is returned for it, and the field of the
\* root that holds it is named in the aggregate failure that parse raises.
C27_DefaultNeverMasks ==
    Called =>
        \A i \in RejectedWithDefault :
            /\ out.trace[i].type = "error"
            /\ out.trace[i].value = Undefined
            /\ Len(LinesOf(i)) = 1
            /\ LinesOf(i)[1].chan = "error"
            /\ SubSeq(LinesOf(i)[1].text, 1, 4)
               = <<KeyOf(i), "=", environ[KeyOf(i)], " ERROR: ">>
            /\ " (default)" \notin Range(LinesOf(i)[1].text)
            /\ out.threw
            /\ out.trace[1].type # "throw" => AggregateRaised
            /\ AggregateRaised =>
                   \A j \in 1..Len(out.trace) :
                       (/\ out.trace[j].ev = "field"
                        /\ out.trace[j].node = root
                        /\ j < i
                        /\ i <= out.trace[j].end) =>
                           out.trace[j].name \in Range(Tail(out.message))

\* A leaf with a default was given a string that its conversion rejects,
\* as a field of the root, and parse raised the aggregate failure.
C27_Witness ==
    /\ Called
    /\ AggregateRaised
    /\ \E i \in RejectedWithDefault :
          /\ ParentOf(i) = root
          /\ heap[out.trace[i].node].defaultValue.value # Undefined

\* C28: a leaf that map(f) made keeps the key override and the secrecy of
\* the leaf it was made from: it reads the key that leaf's env() names, and
\* when that leaf is secret its line for a converted value is
\* '<key>=<REDACTED>', for every snapshot.
C28_MapKeepsEnvAndSecret ==
    \A w \in Allocated(heap) :
        (heap[w].kind = "map" /\ heap[w] = MapVariable(heap[w].variable, heap[w].f)) =>
            \A key \in SnapKeys :
                LET x == heap[heap[w].variable]
                    k == IF x.envName # None THEN x.envName ELSE key
                    r == Resolution(heap, w, key)
                IN  /\ \A l \in 1..Len(r.log) : r.log[l].text[1] = k
                    /\ (x.isSecret /\ r.type = "success" /\ k \in DOMAIN environ) =>
                           r.log = <<[chan |-> "info", text |-> <<k, "=", "<REDACTED>">>]>>

\* The snapshot keys the last parse call read: the keys of the leaves and
\* of the unions it resolved.
ReadKeys == {KeyOf(i) : i \in LeafVisits \cup UnionVisits}

\* Snapshot e has the keys of ReadKeys that the snapshot has, with the same
\* strings.
AgreesOnReadKeys(e) ==
    \A k \in ReadKeys :
        /\ k \in DOMAIN e <=> k \in DOMAIN environ
        /\ k \in DOMAIN environ => e[k] = environ[k]

\* What a parse of snapshot e on the tree gives: the result or what is
\* raised, and the lines.
Observed(e) ==
    LET o == parse(heap, root, e).out
    IN  [threw |-> o.threw, isError |-> o.isError, message |-> o.message,
         value |-> o.value, log |-> Lines(o.log)]

\* The variants of the union resolved at place i that it did not select.
NotSelected(i) ==
    LET u == heap[out.trace[i].node]
    IN  {u.fields[f].node : f \in 1..Len(u.fields)}
        \ (IF i \in Selections(out.trace[i].ev)
           THEN {Own(u.fields, Chosen(u, KeyOf(i)).s).node}
           ELSE {})

\* C29: a union resolves the variant it selects and no other: a union that
\* fails with a missing or invalid selector resolves nothing, no parser of a
\* variant that was not selected is called, no log line comes from one, a
\* key is marked used only if a leaf that was resolved reads it, and a
\* snapshot that differs only in keys that the call did not read gives the
\* same result and the same lines.
C29_OnlySelectedVariant ==
    (Called /\ UnionVisits # {}) =>
        /\ \A i \in UnionVisits :
              /\ i \notin Selections(out.trace[i].ev) =>
                     (out.trace[i].end = i \/ out.trace[i].type = "throw")
              /\ i \in Selections(out.trace[i].ev) =>
                     out.trace[i + 1].node
                     = Own(heap[out.trace[i].node].fields,
                           Chosen(heap[out.trace[i].node], KeyOf(i)).s).node
              /\ \A j \in (i + 1)..out.trace[i].end :
                     out.trace[j].node \notin NotSelected(i)
              /\ \A l \in LinesDuring(i) :
                     out.log[l].at = i \/ out.trace[out.log[l].at].ev = "leaf"
        /\ \A k \in DOMAIN out.env :
              out.env[k].used => \E j \in LeafVisits : KeyOf(j) = k
        /\ \A e \in Snapshots : AgreesOnReadKeys(e) => Observed(e) = Observed(environ)

\* A union selected a variant while the snapshot held the key of a field of
\* a variant it did not select, and that key stayed unused.
C29_Witness ==
    /\ Called
    /\ \E i \in UnionVisits :
          /\ i \in Selections(out.trace[i].ev)
          /\ out.trace[i].type = "success"
          /\ \E v \in NotSelected(i) :
                \E f \in 1..Len(heap[v].fields) :
                    /\ heap[v].fields[f].name \in DOMAIN environ
                    /\ ~out.env[heap[v].fields[f].name].used

\* C30: a parse call changes nothing but used flags and the log: the tree
\* and the snapshot are as before the call, the Context has the keys and
\* the strings of the snapshot, and a used flag is set only for a key that
\* the snapshot has and that is the key of a leaf that was resolved.
C30_OnlyFlagsAndLog ==
    [][Parse =>
          /\ heap' = heap
          /\ environ' = environ
          /\ out'.input = environ
          /\ DOMAIN out'.env = DOMAIN environ
          /\ \A k \in DOMAIN environ :
                /\ out'.env[k].value = environ[k]
                /\ out'.env[k].used =>
                       \E i \in 1..Len(out'.trace) :
                           /\ out'.trace[i].ev = "leaf"
                           /\ k = (IF heap[out'.trace[i].node].envName # None
                                   THEN heap[out'.trace[i].node].envName
                                   ELSE out'.trace[i].name)
          /\ out'.marked = {}
          /\ prototypeUsed' = prototypeUsed]_vars

====
